---- MODULE Spec2Model ----
(***************************************************************************)
(* Model of the semantic analyzer (src/semantic.py) and of the AST shapes  *)
(* the parser (src/parser.py) hands to it.                                 *)
(*                                                                         *)
(* Python values are modelled as records:                                  *)
(*   str        [k |-> "str", s |-> <<pieces>>]  (a string is the          *)
(*              concatenation of its pieces, so that "array[" + t + "]"    *)
(*              can be built and taken apart again)                        *)
(*   None       [k |-> "none"]                                             *)
(*   ("array", T)                 [k |-> "array", e |-> T]                 *)
(*   ("function", R, [P1, ...])   [k |-> "function", r |-> R, p |-> <<P>>] *)
(* AST nodes are records with a field py ("tuple", "list" or "str") and,   *)
(* for tuples, a field kind holding node[0].                               *)
(*                                                                         *)
(* The parser is modelled as the shift/reduce machine that yacc.yacc()     *)
(* builds from the productions of src/parser.py, on the statements         *)
(* ID = expr and return [expr] with expressions of identifiers and the     *)
(* operators of p_expr_binop.                                              *)
(***************************************************************************)
EXTENDS Integers, Sequences, FiniteSets, TLC

VARIABLES scopes, current_function, raised, last,
          program, input, symstack, parsed

\* the analyzer: the scope stack, the return-type slot, whether analyze() has
\* raised, and the last call with its outcome
avars == <<scopes, current_function, raised, last>>

\* the parser: the token stream given to parse(), the tokens not yet read,
\* the symbol stack, and what parse() returned or raised
pvars == <<program, input, symstack, parsed>>

vars == <<scopes, current_function, raised, last, program, input, symstack, parsed>>

\* ------------------------------------------------------------------ values

None == [k |-> "none"]

PyStr(pieces) == [k |-> "str", s |-> pieces]

TInt == PyStr(<<"int">>)

TDouble == PyStr(<<"double">>)

TStr == PyStr(<<"str">>)

TBool == PyStr(<<"bool">>)

TVoid == PyStr(<<"void">>)

TEnum == PyStr(<<"enum">>)

TRange == PyStr(<<"range">>)

\* the tuple ("array", T) that p_array builds for the type T[]
ArrayType(t) == [k |-> "array", e |-> t]

\* the tuple ("function", return_type, [param types]) built by analyze_func_declare
FunctionType(ret, ptypes) == [k |-> "function", r |-> ret, p |-> ptypes]

\* isinstance(v, tuple)
IsPyTuple(v) == v.k \in {"array", "function"}

\* ------------------------------------------------------------- exceptions

NoExc == "none"

SemanticError == "SemanticError"

IndexError == "IndexError"

AttributeError == "AttributeError"

\* ------------------------------------------------------------ SymbolTable

\* an empty dict
EmptyScope == [n \in {} |-> None]

\* SymbolTable.__init__: self.scopes = [{}]
InitScopes == <<EmptyScope>>

\* the outcome of a SymbolTable call: the stack after it, the value returned,
\* the exception raised (NoExc when it returns) and its message
STResult(sc, v, e, m) == [scopes |-> sc, val |-> v, exc |-> e, msg |-> m]

\* SymbolTable.enter_scope
STenter_scope(sc) == STResult(Append(sc, EmptyScope), None, NoExc, "")

\* SymbolTable.exit_scope: list.pop() on an empty list raises IndexError
STexit_scope(sc) ==
    IF sc = <<>>
    THEN STResult(sc, None, IndexError, "pop from empty list")
    ELSE STResult(SubSeq(sc, 1, Len(sc) - 1), None, NoExc, "")

\* faulty variant: the redeclaration check is dropped, the binding is overwritten
STdeclare_NoCheck(sc, name, type) ==
    IF sc = <<>>
    THEN STResult(sc, None, IndexError, "list index out of range")
    ELSE STResult([sc EXCEPT ![Len(sc)] =
                       [n \in DOMAIN @ \cup {name} |-> IF n = name THEN type ELSE @[n]]],
                  None, NoExc, "")

\* SymbolTable.declare
STdeclare(sc, name, type) ==
    IF sc = <<>>
    THEN STResult(sc, None, IndexError, "list index out of range")
    ELSE IF name \in DOMAIN sc[Len(sc)]
    THEN STResult(sc, None, SemanticError, "already declared in current scope")
    ELSE STResult([sc EXCEPT ![Len(sc)] =
                       [n \in DOMAIN @ \cup {name} |-> IF n = name THEN type ELSE @[n]]],
                  None, NoExc, "")

\* the indices of the scopes that contain name
Holders(sc, name) == {i \in 1..Len(sc) : name \in DOMAIN sc[i]}

\* the largest element of a non-empty set of numbers
MaxOf(S) == CHOOSE i \in S : \A j \in S : j <= i

\* the smallest element of a non-empty set of numbers
MinOf(S) == CHOOSE i \in S : \A j \in S : i <= j

\* faulty variant: the scopes are searched outermost first
STlookup_Outermost(sc, name) ==
    IF Holders(sc, name) = {}
    THEN STResult(sc, None, SemanticError, "not declared")
    ELSE STResult(sc, sc[MinOf(Holders(sc, name))][name], NoExc, "")

\* SymbolTable.lookup: for scope in reversed(self.scopes)
STlookup(sc, name) ==
    IF Holders(sc, name) = {}
    THEN STResult(sc, None, SemanticError, "not declared")
    ELSE STResult(sc, sc[MaxOf(Holders(sc, name))][name], NoExc, "")

\* ------------------------------------------------------------- AST nodes
\* The tuples the parser's productions build; node[0] is the field kind.

\* p_declare: ("declare", type, name)
Declare(type, name) == [py |-> "tuple", kind |-> "declare", type |-> type, name |-> name]

\* p_declare_assign: ("declare_assign", type, name, expr)
DeclareAssign(type, name, expr) ==
    [py |-> "tuple", kind |-> "declare_assign", type |-> type, name |-> name, expr |-> expr]

\* p_assign: ("assign", name, op, expr)
Assign(name, op, expr) ==
    [py |-> "tuple", kind |-> "assign", name |-> name, op |-> op, expr |-> expr]

\* p_enum_declare: ("enum_declare", name, items)
EnumDeclare(name, items) ==
    [py |-> "tuple", kind |-> "enum_declare", name |-> name, items |-> items]

\* p_return_stmt: ("return",), a tuple of length 1
Return0 == [py |-> "tuple", kind |-> "return", len |-> 1]

\* p_return_stmt: ("return", expr), a tuple of length 2
Return1(expr) == [py |-> "tuple", kind |-> "return", len |-> 2, expr |-> expr]

\* p_pass_stmt: ("pass",)
Pass == [py |-> "tuple", kind |-> "pass"]

\* p_func_declare: ("func_declare", type, name, params, block)
FuncDeclare(ret, name, params, body) ==
    [py |-> "tuple", kind |-> "func_declare", ret |-> ret, name |-> name,
     params |-> params, body |-> body]

\* a Python list that is handed to analyze_node as a node (p_block, p_stmts)
PyList(items) == [py |-> "list", items |-> items]

\* p_struct: ("struct", name, bases, block)
Struct(name, bases, body) ==
    [py |-> "tuple", kind |-> "struct", name |-> name, bases |-> bases, body |-> body]

\* p_struct_constructor: ("struct_ctor", params, block)
StructCtor(params, body) ==
    [py |-> "tuple", kind |-> "struct_ctor", params |-> params, body |-> body]

\* p_when_stmt: ("when_stmt", blocks)
WhenStmt(blocks) == [py |-> "tuple", kind |-> "when_stmt", blocks |-> blocks]

\* p_when_block: ("when", expr, block)
When(cond, body) == [py |-> "tuple", kind |-> "when", cond |-> cond, body |-> body]

\* p_default_block: ("when_default", block)
WhenDefault(body) == [py |-> "tuple", kind |-> "when_default", body |-> body]

\* p_loop_stmt: ("loop", declare, expr, block)
Loop(var_decl, iterable, body) ==
    [py |-> "tuple", kind |-> "loop", var_decl |-> var_decl, iterable |-> iterable,
     body |-> body]

\* p_until_stmt: ("until", expr, block)
Until(cond, body) == [py |-> "tuple", kind |-> "until", cond |-> cond, body |-> body]

\* p_expr_func_call: ("func_call", name, args)
FuncCall(name, args) == [py |-> "tuple", kind |-> "func_call", name |-> name, args |-> args]

\* p_expr_binop: ("binop", op, left, right)
BinOp(op, left, right) ==
    [py |-> "tuple", kind |-> "binop", op |-> op, left |-> left, right |-> right]

\* p_expr_comop: ("comop", op, left, right)
ComOp(op, left, right) ==
    [py |-> "tuple", kind |-> "comop", op |-> op, left |-> left, right |-> right]

\* p_expr_conop: ("conop", cond, true_expr, false_expr)
ConOp(cond, t, f) == [py |-> "tuple", kind |-> "conop", cond |-> cond, t |-> t, f |-> f]

\* p_expr_unary: ("unary", op, ID); the operand is the identifier's text
Unary(op, operand) == [py |-> "tuple", kind |-> "unary", op |-> op, operand |-> operand]

\* a Python str standing where a node is expected
PyName(name) == [py |-> "str", name |-> name]

\* p_expr_logic_not: ("logic_not", expr)
LogicNot(expr) == [py |-> "tuple", kind |-> "logic_not", expr |-> expr]

\* p_epxr_logic_and: ("logic_and", left, right)
LogicAnd(left, right) == [py |-> "tuple", kind |-> "logic_and", left |-> left, right |-> right]

\* p_epxr_logic_or: ("logic_or", left, right)
LogicOr(left, right) == [py |-> "tuple", kind |-> "logic_or", left |-> left, right |-> right]

\* p_expr_access: ("access", left, right)
Access(left, right) == [py |-> "tuple", kind |-> "access", left |-> left, right |-> right]

\* p_expr_cast: ("cast", type, expr)
Cast(type, expr) == [py |-> "tuple", kind |-> "cast", type |-> type, expr |-> expr]

\* p_expr_range: ("range", start, end)
Range(start, end) == [py |-> "tuple", kind |-> "range", start |-> start, end |-> end]

\* p_array_lit: ("array_lit", items)
ArrayLit(items) == [py |-> "tuple", kind |-> "array_lit", items |-> items]

\* p_index: ("index", array, index)
Index(array, index) == [py |-> "tuple", kind |-> "index", array |-> array, index |-> index]

\* p_spread: ("spread", expr)
Spread(expr) == [py |-> "tuple", kind |-> "spread", expr |-> expr]

\* p_modifier: ("modifier", expr)
Modifier(expr) == [py |-> "tuple", kind |-> "modifier", expr |-> expr]

\* p_expr_integer: ("integer", text)
Integer == [py |-> "tuple", kind |-> "integer"]

\* p_expr_double: ("doublel", text)
Doublel == [py |-> "tuple", kind |-> "doublel"]

\* p_expr_string: ("string", text)
String == [py |-> "tuple", kind |-> "string"]

\* p_expr_boolean: ("boolean", text)
Boolean == [py |-> "tuple", kind |-> "boolean"]

\* p_expr_id: ("id", name)
Id(name) == [py |-> "tuple", kind |-> "id", name |-> name]

\* the node kinds the productions reachable from program can put into an AST
ParserKinds ==
    {"declare", "assign", "declare_assign", "enum_declare", "return", "pass",
     "func_declare", "struct", "struct_ctor", "when_stmt", "when", "when_default",
     "loop", "until", "func_call", "binop", "unary", "logic_not", "logic_and",
     "logic_or", "comop", "conop", "access", "integer", "string", "boolean",
     "doublel", "id", "cast", "range", "array_lit", "index", "spread"}

\* the kinds K for which SemanticAnalyzer has a method analyze_K
Handlers ==
    {"declare", "declare_assign", "assign", "func_declare", "return", "func_call",
     "binop", "id", "integer", "string", "boolean", "doublel", "enum_declare",
     "array_lit", "index", "spread", "modifier", "pass", "when_stmt", "loop",
     "until", "unary", "logic_not", "logic_and", "logic_or", "comop", "conop",
     "cast", "range"}

\* --------------------------------------------------------- SemanticAnalyzer
\* The analyzer's fields while a call runs: scopes is symbol_table.scopes and
\* cf is current_function. Two history fields record what the claims speak
\* of: encl is the stack of declared return types of the func_declare nodes
\* whose body is being analyzed, log the events of the call so far.

\* the outcome of a handler: the fields after it, the value it returns, the
\* exception it raises (NoExc when it returns) and the exception's message
Ret(st, v) == [st |-> st, val |-> v, exc |-> NoExc, msg |-> ""]

Raise(st, e, m) == [st |-> st, val |-> None, exc |-> e, msg |-> m]

\* a SymbolTable call made by a handler
FromST(st, r) ==
    [st |-> [st EXCEPT !.scopes = r.scopes], val |-> r.val, exc |-> r.exc, msg |-> r.msg]

\* faulty variant: the widening rule int -> double is missing
type_compatible_NoWiden(expected, actual) == expected = actual

\* SemanticAnalyzer.type_compatible
type_compatible(expected, actual) ==
    \/ expected = actual
    \/ (expected = TDouble /\ actual = TInt)

\* SemanticAnalyzer.result_type: the value returned or the exception raised
result_type(op, left_type, right_type) ==
    IF op \in {"+", "-", "*", "/"}
    THEN [val |-> IF left_type = TDouble \/ right_type = TDouble THEN TDouble ELSE TInt,
          exc |-> NoExc, msg |-> ""]
    ELSE IF op \in {"==", "!=", "<", ">", "<=", ">="}
    THEN [val |-> TBool, exc |-> NoExc, msg |-> ""]
    ELSE IF op = "&&" \/ op = "||"
    THEN IF left_type = TBool /\ right_type = TBool
         THEN [val |-> TBool, exc |-> NoExc, msg |-> ""]
         ELSE [val |-> None, exc |-> SemanticError,
               msg |-> "Logical operators require boolean operands"]
    ELSE [val |-> None, exc |-> SemanticError, msg |-> "Unknown operator"]

\* v.startswith("array["): "yes", "no", or "AttributeError" when v is no str
StartsWithArray(v) ==
    IF v.k # "str" THEN AttributeError
    ELSE IF Len(v.s) >= 1 /\ v.s[1] = "array[" THEN "yes" ELSE "no"

RECURSIVE Repr(_)
\* repr(v), in pieces
Repr(v) ==
    CASE v.k = "str" -> <<"'">> \o v.s \o <<"'">>
      [] v.k = "none" -> <<"None">>
      [] v.k = "array" -> <<"('array', ">> \o Repr(v.e) \o <<")">>
      [] OTHER -> <<"('function', ...)">>

\* the text of {v} in an f-string: str(v), in pieces
Format(v) == IF v.k = "str" THEN v.s ELSE Repr(v)

\* f"array[{t}]"
ArrayString(t) == PyStr(<<"array[">> \o Format(t) \o <<"]">>)

\* s[6:-1] of a str s that starts with "array[" and ends with a one-character piece
StripArray(v) == PyStr(SubSeq(v.s, 2, Len(v.s) - 1))

RECURSIVE analyze_node(_, _)
RECURSIVE analyze_each(_, _, _)
RECURSIVE analyze_args(_, _, _, _)
RECURSIVE analyze_items(_, _, _, _)

\* for node in nodes: self.analyze_node(node), from the i-th on
analyze_each(nodes, i, st) ==
    IF i > Len(nodes) THEN Ret(st, None)
    ELSE LET r == analyze_node(nodes[i], st)
         IN IF r.exc # NoExc THEN r ELSE analyze_each(nodes, i + 1, r.st)

\* SemanticAnalyzer.analyze_declare
analyze_declare(node, st) == FromST(st, STdeclare(st.scopes, node.name, node.type))

\* SemanticAnalyzer.analyze_declare_assign
analyze_declare_assign(node, st) ==
    LET e == analyze_node(node.expr, st)
    IN IF e.exc # NoExc THEN e
       ELSE IF ~type_compatible(node.type, e.val)
       THEN Raise(e.st, SemanticError, "Type mismatch")
       ELSE FromST(e.st, STdeclare(e.st.scopes, node.name, node.type))

\* SemanticAnalyzer.analyze_assign
analyze_assign(node, st) ==
    LET v == FromST(st, STlookup(st.scopes, node.name))
    IN IF v.exc # NoExc THEN v
       ELSE LET e == analyze_node(node.expr, v.st)
            IN IF e.exc # NoExc THEN e
               ELSE IF ~type_compatible(v.val, e.val)
               THEN Raise(e.st, SemanticError, "Type mismatch in assignment")
               ELSE Ret(e.st, None)

\* [p[1] for p in params]
ParamTypes(params) == [i \in 1..Len(params) |-> params[i].type]

\* faulty variant: the function is declared after its scope is entered
analyze_func_declare_DeclareInside(node, st) ==
    LET s1 == [st EXCEPT !.scopes = STenter_scope(@).scopes,
                         !.cf = node.ret,
                         !.encl = Append(@, node.ret)]
        d == FromST(s1, STdeclare(s1.scopes, node.name,
                                  FunctionType(node.ret, ParamTypes(node.params))))
    IN IF d.exc # NoExc THEN d
       ELSE LET p == analyze_each(node.params, 1, d.st)
            IN IF p.exc # NoExc THEN p
               ELSE LET b == analyze_each(node.body, 1, p.st)
                    IN IF b.exc # NoExc THEN b
                       ELSE FromST([b.st EXCEPT !.cf = None,
                                                !.encl = SubSeq(@, 1, Len(@) - 1)],
                                   STexit_scope(b.st.scopes))

\* SemanticAnalyzer.analyze_func_declare
analyze_func_declare(node, st) ==
    LET d == FromST(st, STdeclare(st.scopes, node.name,
                                  FunctionType(node.ret, ParamTypes(node.params))))
    IN IF d.exc # NoExc THEN d
       ELSE LET s1 == [d.st EXCEPT !.scopes = STenter_scope(@).scopes,
                                   !.cf = node.ret,
                                   !.encl = Append(@, node.ret)]
                p == analyze_each(node.params, 1, s1)
            IN IF p.exc # NoExc THEN p
               ELSE LET b == analyze_each(node.body, 1, p.st)
                    IN IF b.exc # NoExc THEN b
                       ELSE FromST([b.st EXCEPT !.cf = None,
                                                !.encl = SubSeq(@, 1, Len(@) - 1)],
                                   STexit_scope(b.st.scopes))

\* the event a return statement leaves in the log: the slot and the enclosing
\* declarations at the moment the slot is read
ReturnEvent(st, type) == [ev |-> "return", cf |-> st.cf, encl |-> st.encl, type |-> type]

\* SemanticAnalyzer.analyze_return
analyze_return(node, st) ==
    LET e == IF node.len = 1 THEN Ret(st, TVoid) ELSE analyze_node(node.expr, st)
    IN IF e.exc # NoExc THEN e
       ELSE LET s1 == [e.st EXCEPT !.log = Append(@, ReturnEvent(e.st, e.val))]
            IN IF s1.cf = None
               THEN Raise(s1, SemanticError, "Return statement outside function")
               ELSE IF ~type_compatible(s1.cf, e.val)
               THEN Raise(s1, SemanticError, "Return type mismatch")
               ELSE Ret(s1, None)

\* for arg, param_type in zip(args, func_type[2]), from the i-th pair on
analyze_args(args, ptypes, i, st) ==
    IF i > Len(args) \/ i > Len(ptypes) THEN Ret(st, None)
    ELSE LET a == analyze_node(args[i], st)
         IN IF a.exc # NoExc THEN a
            ELSE IF ~type_compatible(ptypes[i], a.val)
            THEN Raise(a.st, SemanticError, "Argument type mismatch")
            ELSE analyze_args(args, ptypes, i + 1, a.st)

\* isinstance(func_type, tuple) and func_type[0] == "function"
IsFunctionType(v) == IsPyTuple(v) /\ v.k = "function"

\* faulty variant: the number of arguments is not compared with the number of parameters
ArityMismatch_Never(args, ptypes) == FALSE

\* len(args) != len(func_type[2])
ArityMismatch(args, ptypes) == Len(args) # Len(ptypes)

\* SemanticAnalyzer.analyze_func_call
analyze_func_call(node, st) ==
    LET f == FromST(st, STlookup(st.scopes, node.name))
    IN IF f.exc # NoExc THEN f
       ELSE IF ~IsFunctionType(f.val)
       THEN Raise(f.st, SemanticError, "is not a function")
       ELSE IF ArityMismatch(node.args, f.val.p)
       THEN Raise(f.st, SemanticError, "Wrong number of arguments")
       ELSE LET a == analyze_args(node.args, f.val.p, 1, f.st)
            IN IF a.exc # NoExc THEN a ELSE Ret(a.st, f.val.r)

\* SemanticAnalyzer.analyze_binop
analyze_binop(node, st) ==
    LET l == analyze_node(node.left, st)
    IN IF l.exc # NoExc THEN l
       ELSE LET r == analyze_node(node.right, l.st)
            IN IF r.exc # NoExc THEN r
               ELSE IF ~type_compatible(l.val, r.val)
               THEN Raise(r.st, SemanticError, "Type mismatch in binary operation")
               ELSE LET t == result_type(node.op, l.val, r.val)
                    IN [st |-> r.st, val |-> t.val, exc |-> t.exc, msg |-> t.msg]

\* SemanticAnalyzer.analyze_id
analyze_id(node, st) == FromST(st, STlookup(st.scopes, node.name))

\* for item in items: self.symbol_table.declare(item, name), from the i-th on
RECURSIVE declare_items(_, _, _, _)
declare_items(items, name, i, st) ==
    IF i > Len(items) THEN Ret(st, None)
    ELSE LET d == FromST(st, STdeclare(st.scopes, items[i], PyStr(<<name>>)))
         IN IF d.exc # NoExc THEN d ELSE declare_items(items, name, i + 1, d.st)

\* SemanticAnalyzer.analyze_enum_declare
analyze_enum_declare(node, st) ==
    LET d == FromST(st, STdeclare(st.scopes, node.name, TEnum))
    IN IF d.exc # NoExc THEN d ELSE declare_items(node.items, node.name, 1, d.st)

\* [self.analyze_node(item) for item in items], from the i-th on; val is the list
analyze_items(items, i, acc, st) ==
    IF i > Len(items) THEN Ret(st, [k |-> "list", items |-> acc])
    ELSE LET r == analyze_node(items[i], st)
         IN IF r.exc # NoExc THEN r
            ELSE analyze_items(items, i + 1, Append(acc, r.val), r.st)

\* SemanticAnalyzer.analyze_array_lit
analyze_array_lit(node, st) ==
    LET r == analyze_items(node.items, 1, <<>>, st)
    IN IF r.exc # NoExc THEN r
       ELSE LET ts == r.val.items
            IN IF ~(\A i \in 1..Len(ts) : ts[i] = ts[1])
               THEN Raise(r.st, SemanticError, "Array elements must be of the same type")
               ELSE IF ts = <<>>
               THEN Raise(r.st, IndexError, "list index out of range")
               ELSE Ret(r.st, ArrayString(ts[1]))

\* SemanticAnalyzer.analyze_index
analyze_index(node, st) ==
    LET a == analyze_node(node.array, st)
    IN IF a.exc # NoExc THEN a
       ELSE LET i == analyze_node(node.index, a.st)
            IN IF i.exc # NoExc THEN i
               ELSE IF StartsWithArray(a.val) = AttributeError
               THEN Raise(i.st, AttributeError, "no attribute startswith")
               ELSE IF StartsWithArray(a.val) = "no"
               THEN Raise(i.st, SemanticError, "Indexing is only supported on arrays")
               ELSE IF i.val # TInt
               THEN Raise(i.st, SemanticError, "Array index must be an integer")
               ELSE Ret(i.st, StripArray(a.val))

\* SemanticAnalyzer.analyze_spread
analyze_spread(node, st) ==
    LET e == analyze_node(node.expr, st)
    IN IF e.exc # NoExc THEN e
       ELSE IF StartsWithArray(e.val) = AttributeError
       THEN Raise(e.st, AttributeError, "no attribute startswith")
       ELSE IF StartsWithArray(e.val) = "no"
       THEN Raise(e.st, SemanticError, "Spread operator is only supported on arrays")
       ELSE e

\* SemanticAnalyzer.analyze_modifier
analyze_modifier(node, st) == analyze_node(node.expr, st)

\* SemanticAnalyzer.analyze_when_stmt
analyze_when_stmt(node, st) == analyze_each(node.blocks, 1, st)

\* the body of a loop or until: enter_scope, analyze_node(body), exit_scope
analyze_body(body, st) ==
    LET s1 == [st EXCEPT !.scopes = STenter_scope(@).scopes]
        b == analyze_node(body, s1)
    IN IF b.exc # NoExc THEN b
       ELSE LET x == FromST(b.st, STexit_scope(b.st.scopes))
            IN [x EXCEPT !.val = None]

\* SemanticAnalyzer.analyze_loop
analyze_loop(node, st) ==
    LET v == analyze_node(node.var_decl, st)
    IN IF v.exc # NoExc THEN v
       ELSE LET it == analyze_node(node.iterable, v.st)
            IN IF it.exc # NoExc THEN it
               ELSE IF StartsWithArray(it.val) = AttributeError
               THEN Raise(it.st, AttributeError, "no attribute startswith")
               ELSE IF StartsWithArray(it.val) = "no"
               THEN Raise(it.st, SemanticError, "Loop iterable must be an array")
               ELSE analyze_body(node.body, it.st)

\* SemanticAnalyzer.analyze_until
analyze_until(node, st) ==
    LET c == analyze_node(node.cond, st)
    IN IF c.exc # NoExc THEN c
       ELSE IF c.val # TBool
       THEN Raise(c.st, SemanticError, "Until condition must be a boolean")
       ELSE analyze_body(node.body, c.st)

\* SemanticAnalyzer.analyze_unary
analyze_unary(node, st) ==
    LET o == analyze_node(node.operand, st)
    IN IF o.exc # NoExc THEN o
       ELSE IF node.op \in {"++", "--"}
       THEN IF o.val # TInt
            THEN Raise(o.st, SemanticError, "Unary operator requires integer operand")
            ELSE Ret(o.st, TInt)
       ELSE Raise(o.st, SemanticError, "Unknown unary operator")

\* SemanticAnalyzer.analyze_logic_not
analyze_logic_not(node, st) ==
    LET e == analyze_node(node.expr, st)
    IN IF e.exc # NoExc THEN e
       ELSE IF e.val # TBool
       THEN Raise(e.st, SemanticError, "Logical NOT operator requires boolean operand")
       ELSE Ret(e.st, TBool)

\* SemanticAnalyzer.analyze_logic_and and analyze_logic_or
analyze_logic_binary(node, st) ==
    LET l == analyze_node(node.left, st)
    IN IF l.exc # NoExc THEN l
       ELSE LET r == analyze_node(node.right, l.st)
            IN IF r.exc # NoExc THEN r
               ELSE IF l.val # TBool \/ r.val # TBool
               THEN Raise(r.st, SemanticError, "Logical operator requires boolean operands")
               ELSE Ret(r.st, TBool)

\* SemanticAnalyzer.analyze_comop
analyze_comop(node, st) ==
    LET l == analyze_node(node.left, st)
    IN IF l.exc # NoExc THEN l
       ELSE LET r == analyze_node(node.right, l.st)
            IN IF r.exc # NoExc THEN r
               ELSE IF ~type_compatible(l.val, r.val)
               THEN Raise(r.st, SemanticError, "Type mismatch in comparison")
               ELSE Ret(r.st, TBool)

\* SemanticAnalyzer.analyze_conop
analyze_conop(node, st) ==
    LET c == analyze_node(node.cond, st)
    IN IF c.exc # NoExc THEN c
       ELSE LET t == analyze_node(node.t, c.st)
            IN IF t.exc # NoExc THEN t
               ELSE LET f == analyze_node(node.f, t.st)
                    IN IF f.exc # NoExc THEN f
                       ELSE IF c.val # TBool
                       THEN Raise(f.st, SemanticError, "Conditional operator requires boolean condition")
                       ELSE IF ~type_compatible(t.val, f.val)
                       THEN Raise(f.st, SemanticError, "Type mismatch in conditional operator")
                       ELSE Ret(f.st, t.val)

\* SemanticAnalyzer.analyze_cast
analyze_cast(node, st) ==
    LET e == analyze_node(node.expr, st)
    IN IF e.exc # NoExc THEN e ELSE Ret(e.st, node.type)

\* SemanticAnalyzer.analyze_range
analyze_range(node, st) ==
    LET s == analyze_node(node.start, st)
    IN IF s.exc # NoExc THEN s
       ELSE LET e == analyze_node(node.end, s.st)
            IN IF e.exc # NoExc THEN e
               ELSE IF s.val # TInt \/ e.val # TInt
               THEN Raise(e.st, SemanticError, "Range bounds must be integers")
               ELSE Ret(e.st, TRange)

\* the else branch of analyze_node: no method analyze_<kind>
UnknownNode(node, st) == Raise(st, SemanticError, "Unknown node type")

\* SemanticAnalyzer.analyze_node
analyze_node(node, st) ==
    IF node.py # "tuple" THEN Ret(st, None)
    ELSE IF node.kind \notin Handlers THEN UnknownNode(node, st)
    ELSE CASE node.kind = "declare" -> analyze_declare(node, st)
           [] node.kind = "declare_assign" -> analyze_declare_assign(node, st)
           [] node.kind = "assign" -> analyze_assign(node, st)
           [] node.kind = "func_declare" -> analyze_func_declare(node, st)
           [] node.kind = "return" -> analyze_return(node, st)
           [] node.kind = "func_call" -> analyze_func_call(node, st)
           [] node.kind = "binop" -> analyze_binop(node, st)
           [] node.kind = "id" -> analyze_id(node, st)
           [] node.kind = "integer" -> Ret(st, TInt)
           [] node.kind = "string" -> Ret(st, TStr)
           [] node.kind = "boolean" -> Ret(st, TBool)
           [] node.kind = "doublel" -> Ret(st, TDouble)
           [] node.kind = "enum_declare" -> analyze_enum_declare(node, st)
           [] node.kind = "array_lit" -> analyze_array_lit(node, st)
           [] node.kind = "index" -> analyze_index(node, st)
           [] node.kind = "spread" -> analyze_spread(node, st)
           [] node.kind = "modifier" -> analyze_modifier(node, st)
           [] node.kind = "pass" -> Ret(st, None)
           [] node.kind = "when_stmt" -> analyze_when_stmt(node, st)
           [] node.kind = "loop" -> analyze_loop(node, st)
           [] node.kind = "until" -> analyze_until(node, st)
           [] node.kind = "unary" -> analyze_unary(node, st)
           [] node.kind = "logic_not" -> analyze_logic_not(node, st)
           [] node.kind = "logic_and" -> analyze_logic_binary(node, st)
           [] node.kind = "logic_or" -> analyze_logic_binary(node, st)
           [] node.kind = "comop" -> analyze_comop(node, st)
           [] node.kind = "conop" -> analyze_conop(node, st)
           [] node.kind = "cast" -> analyze_cast(node, st)
           [] node.kind = "range" -> analyze_range(node, st)

\* ------------------------------------------------------------------ inputs

\* the deepest scope stack the symbol-table calls build
MaxDepth == 3

\* the most arguments of a call
MaxArgs == 2

\* names and types of the direct SymbolTable calls
STNames == {"x", "y"}

STTypes == {TInt, TStr}

\* literal expressions
Lits == {Integer, Doublel, String, Boolean}

\* types a declaration names
DeclTypes == {TInt, TDouble, TStr}

\* sequences over S of length at most n
RECURSIVE SeqsUpTo(_, _)
SeqsUpTo(S, n) ==
    IF n = 0 THEN {<<>>}
    ELSE LET shorter == SeqsUpTo(S, n - 1)
         IN shorter \cup {Append(q, e) : q \in {r \in shorter : Len(r) = n - 1}, e \in S}

\* ------------------------------------------------------------------- state

\* SymbolTable.__init__ and SemanticAnalyzer.__init__
InitAnalyzer ==
    /\ scopes = InitScopes
    /\ current_function = None
    /\ raised = FALSE
    /\ last = [op |-> "init", node |-> None, val |-> None, exc |-> NoExc, msg |-> "",
               log |-> <<>>]

\* the analyzer constructed, the parser not called: parse() has returned
\* nothing
Init ==
    /\ InitAnalyzer
    /\ program = <<>>
    /\ input = <<>>
    /\ symstack = <<>>
    /\ parsed = [done |-> FALSE, val |-> None, exc |-> NoExc]

\* a call of a SymbolTable method from outside the analyzer
STCall(op, arg, result) ==
    \E r \in {result} :
       /\ scopes' = r.scopes
       /\ last' = [op |-> op, node |-> arg, val |-> r.val, exc |-> r.exc, msg |-> r.msg,
                   log |-> <<>>]
       /\ UNCHANGED pvars

\* symbol_table.enter_scope()
enter_scope ==
    /\ Len(scopes) < MaxDepth
    /\ STCall("enter_scope", None, STenter_scope(scopes))
    /\ UNCHANGED <<current_function, raised>>

\* symbol_table.exit_scope()
exit_scope ==
    /\ STCall("exit_scope", None, STexit_scope(scopes))
    /\ UNCHANGED <<current_function, raised>>

\* symbol_table.declare(name, type_)
declare ==
    /\ \E name \in STNames, type \in STTypes :
          STCall("declare", [name |-> name, type |-> type], STdeclare(scopes, name, type))
    /\ UNCHANGED <<current_function, raised>>

\* symbol_table.lookup(name)
lookup ==
    /\ \E name \in STNames :
          STCall("lookup", [name |-> name], STlookup(scopes, name))
    /\ UNCHANGED <<current_function, raised>>

\* the symbol table driven by its own methods
NextST == enter_scope \/ exit_scope \/ declare \/ lookup

SpecST == Init /\ [][NextST]_vars

\* ------------------------------------------------------- analysis inputs

\* expressions without operands: the literals, a variable and the function name
Atoms == Lits \cup {Id("x"), Id("f")}

\* the arguments of a call
ArgAtoms == {Integer, Doublel, String}

\* calls of f (a function once declared) and of x (a variable once declared)
FuncCalls == {FuncCall(name, args) : name \in {"f", "x"}, args \in SeqsUpTo(ArgAtoms, MaxArgs)}

\* arithmetic operators of p_expr_binop
BinOperators == {"+", "-", "*", "/", "**"}

BinOperands == {Integer, Doublel, Id("x")}

BinOps == {BinOp(op, l, r) : op \in BinOperators, l \in BinOperands, r \in BinOperands}

\* parameter lists: none, and (int a, double b)
ParamLists == {<<>>, <<Declare(TInt, "a"), Declare(TDouble, "b")>>}

\* a function declared inside a function body
InnerFunc == FuncDeclare(TVoid, "g", <<>>, <<Return0>>)

\* function bodies (p_block: a list of statements)
Bodies ==
    {<<Return0>>, <<Return1(Integer)>>, <<Return1(Doublel)>>, <<Return1(Id("a"))>>,
     <<Return1(FuncCall("f", <<Id("a"), Id("a")>>))>>, <<Pass>>,
     <<InnerFunc>>, <<InnerFunc, Return0>>, <<InnerFunc, Return1(Integer)>>,
     <<Return1(Integer), InnerFunc>>}

FuncDecls ==
    {FuncDeclare(ret, "f", params, body) :
        ret \in {TInt, TDouble, TVoid}, params \in ParamLists, body \in Bodies}

\* loop and until bodies (p_block: a list of statements)
Blocks ==
    {PyList(<<Declare(TInt, "y")>>),
     PyList(<<Declare(TInt, "y"), Declare(TStr, "y")>>),
     PyList(<<Assign("y", "=", String)>>)}

Untils == {Until(cond, body) : cond \in {Boolean, Integer}, body \in Blocks}

Loops ==
    {Loop(Declare(TInt, "x"), it, body) :
        it \in {ArrayLit(<<Integer>>), Integer}, body \in Blocks}

\* array literals (p_array_lit, p_array_items): no item, one, two alike, two unlike
ArrayLits == {ArrayLit(items) : items \in SeqsUpTo({Integer, String}, 2)}

\* unary nodes as p_expr_unary builds them: the operand is the identifier text
Unaries == {Unary(op, PyName(name)) : op \in {"++", "--"}, name \in {"x", "y"}}

\* the types of an array variable: int[] and int[][] as p_array builds them,
\* and the string the analyzer itself uses for an array of int
ArrayDeclTypes == {ArrayType(TInt), ArrayType(ArrayType(TInt)), ArrayString(TInt)}

\* index expressions (p_index) on the variables a and x
Indexes ==
    {Index(Id(v), i) : v \in {"a", "x"}, i \in {Integer, String}}
       \cup {Index(Index(Id("a"), Integer), Integer)}

\* statements whose kind has no counterpart among the analyzer's methods
Compounds ==
    {WhenStmt(<<When(Boolean, <<Pass>>)>>),
     WhenStmt(<<When(Boolean, <<Pass>>), WhenDefault(<<Pass>>)>>),
     Struct("S", <<>>, <<Declare(TInt, "x")>>),
     StructCtor(<<>>, <<Pass>>),
     DeclareAssign(TInt, "x", Access(Id("x"), Id("y")))}

\* type descriptors handed to type_compatible
TypeUniverse ==
    {TInt, TDouble, TStr, TVoid, ArrayType(TInt), FunctionType(TInt, <<TInt>>)}

\* ---------------------------------------------------------------- analysis

\* one iteration of analyze(): self.analyze_node(node); an exception leaves
\* the loop, so no further node is analyzed once one has raised
Analyze(op, node) ==
    /\ \E r \in {analyze_node(node, [scopes |-> scopes, cf |-> current_function,
                                    encl |-> <<>>, log |-> <<>>])} :
          /\ scopes' = r.st.scopes
          /\ current_function' = r.st.cf
          /\ raised' = (r.exc # NoExc)
          /\ last' = [op |-> op, node |-> node, val |-> r.val, exc |-> r.exc,
                      msg |-> r.msg, log |-> r.st.log]
    /\ UNCHANGED pvars

AnalyzeDeclare ==
    /\ ~raised
    /\ \E t \in DeclTypes : Analyze("declare_stmt", Declare(t, "x"))

AnalyzeDeclareAssign ==
    /\ ~raised
    /\ \E t \in DeclTypes, e \in Atoms : Analyze("declare_assign", DeclareAssign(t, "x", e))

AnalyzeAssign ==
    /\ ~raised
    /\ \E e \in Lits \cup {FuncCall("f", <<>>)} : Analyze("assign", Assign("x", "=", e))

AnalyzeFuncDeclare ==
    /\ ~raised
    /\ \E n \in FuncDecls : Analyze("func_declare", n)

AnalyzeReturn ==
    /\ ~raised
    /\ \E n \in {Return0, Return1(Integer)} : Analyze("return", n)

AnalyzeFuncCall ==
    /\ ~raised
    /\ \E n \in FuncCalls : Analyze("func_call", n)

AnalyzeBinop ==
    /\ ~raised
    /\ \E n \in BinOps : Analyze("binop", n)

AnalyzeLoop ==
    /\ ~raised
    /\ \E n \in Loops : Analyze("loop", n)

AnalyzeUntil ==
    /\ ~raised
    /\ \E n \in Untils : Analyze("until", n)

AnalyzeArrayLit ==
    /\ ~raised
    /\ \E n \in ArrayLits : Analyze("array_lit", n)

AnalyzeUnary ==
    /\ ~raised
    /\ \E n \in Unaries : Analyze("unary", n)

AnalyzeDeclareArray ==
    /\ ~raised
    /\ \E t \in ArrayDeclTypes : Analyze("declare_array", Declare(t, "a"))

AnalyzeIndex ==
    /\ ~raised
    /\ \E n \in Indexes : Analyze("index", n)

AnalyzeCompound ==
    /\ ~raised
    /\ \E n \in Compounds : Analyze("compound", n)

\* analyzer.type_compatible(expected, actual), called on its own
TypeCompatible ==
    /\ ~raised
    /\ \E expected \in TypeUniverse, actual \in TypeUniverse :
          \E answer \in {type_compatible(expected, actual)} :
             last' = [op |-> "type_compatible",
                      node |-> [expected |-> expected, actual |-> actual],
                      val |-> answer, exc |-> NoExc, msg |-> "", log |-> <<>>]
    /\ UNCHANGED <<scopes, current_function, raised>>
    /\ UNCHANGED pvars

Next ==
    \/ AnalyzeDeclare
    \/ AnalyzeDeclareAssign
    \/ AnalyzeAssign
    \/ AnalyzeFuncDeclare
    \/ AnalyzeReturn
    \/ AnalyzeFuncCall
    \/ AnalyzeBinop
    \/ AnalyzeLoop
    \/ AnalyzeUntil
    \/ AnalyzeArrayLit
    \/ AnalyzeUnary
    \/ AnalyzeDeclareArray
    \/ AnalyzeIndex
    \/ AnalyzeCompound
    \/ TypeCompatible

Spec == Init /\ [][Next]_vars

\* ------------------------------------------------------------------ parser
\* In a production function p[i] of the code is p[i + 1] here, and len(p) is
\* Len(p): p[0], the slot of the result, comes first.

\* a token: its type (a terminal of the grammar) and its value (its text)
Token(type, value) == [type |-> type, value |-> value]

\* the operators of p_expr_binop
ParseOperators == {"+", "-", "*", "/", "%", "**"}

\* the terminal of each operator of p_expr_binop
BinTokenType(op) ==
    CASE op = "+" -> "PLUS"
      [] op = "-" -> "MINUS"
      [] op = "/" -> "SLASH"
      [] op = "*" -> "STAR"
      [] op = "%" -> "MOD"
      [] op = "**" -> "DOUBLE_STAR"

BinTokens == {BinTokenType(op) : op \in ParseOperators}

\* what a production function does: p[0] = val, or an exception
POk(val) == [val |-> val, exc |-> NoExc]

PRaise(exc) == [val |-> None, exc |-> exc]

\* p_program: p[0] = p[1]
p_program(p) == POk(p[2].value)

\* p_stmts: [p[1]] for one statement, p[1] + [p[2]] for more
p_stmts(p) ==
    IF Len(p) = 2 THEN POk(<<p[2].value>>)
    ELSE POk(Append(p[2].value, p[3].value))

\* p_stmt: p[0] = p[1]
p_stmt(p) == POk(p[2].value)

\* p_simple_stmt: p[0] = p[1]
p_simple_stmt(p) == POk(p[2].value)

\* p_assign: ("assign", p[1], p[2], p[3])
p_assign(p) == POk(Assign(p[2].value, p[3].value, p[4].value))

\* p_assign_op: p[0] = p[1]
p_assign_op(p) == POk(p[2].value)

\* p_return_stmt: ("return",) if len(p) == 1, else ("return", p[2]); p[2] of a
\* production with one symbol is out of range
p_return_stmt(p) ==
    IF Len(p) = 1 THEN POk(Return0)
    ELSE IF Len(p) < 3 THEN PRaise(IndexError)
    ELSE POk(Return1(p[3].value))

\* p_expr_binop: ("binop", p[2], p[1], p[3])
p_expr_binop(p) == POk(BinOp(p[3].value, p[2].value, p[4].value))

\* p_expr_id: ("id", p[1])
p_expr_id(p) == POk(Id(p[2].value))

\* the next token's type, "$end" when the input is read
Lookahead == IF input = <<>> THEN "$end" ELSE Head(input).type

\* The parsing table that yacc.yacc() builds from the productions, on the
\* sentences of TokenStreams: what the parser does with the symbols on the
\* stack and the token ahead.  The module declares no precedence, so where an
\* operator is ahead of expr OP expr the table could both shift the operator
\* and reduce by p_expr_binop, and yacc settles every such conflict as shift.
LRAction(stack, la) ==
    LET n == Len(stack)
        top == IF n = 0 THEN "" ELSE stack[n].type
        under == IF n < 2 THEN "" ELSE stack[n - 1].type
    IN CASE n = 0 /\ la \in {"ID", "RETURN"} -> "shift"
         [] top = "ID" /\ n = 1 /\ la = "EQUALS" -> "shift"
         [] top = "ID" /\ n > 1 /\ la \in BinTokens \cup {"NEWLINE"} -> "p_expr_id"
         [] top = "EQUALS" /\ la = "ID" -> "p_assign_op"
         [] top \in BinTokens \cup {"assign_op"} /\ la = "ID" -> "shift"
         [] top = "RETURN" /\ la = "ID" -> "shift"
         [] top = "RETURN" /\ la = "NEWLINE" -> "p_return_stmt"
         [] top = "expr" /\ la \in BinTokens -> "shift"
         [] top = "expr" /\ la = "NEWLINE" /\ under \in BinTokens -> "p_expr_binop"
         [] top = "expr" /\ la = "NEWLINE" /\ under = "assign_op" -> "p_assign"
         [] top = "expr" /\ la = "NEWLINE" /\ under = "RETURN" -> "p_return_stmt"
         [] top \in {"assign", "return_stmt"} /\ la = "NEWLINE" -> "p_simple_stmt"
         [] top = "simple_stmt" /\ la = "NEWLINE" -> "shift"
         [] top = "NEWLINE" /\ la \in {"ID", "RETURN", "$end"} -> "p_stmt"
         [] top = "stmt" /\ la \in {"ID", "RETURN", "$end"} -> "p_stmts"
         [] top = "stmts" /\ la \in {"ID", "RETURN"} -> "shift"
         [] top = "stmts" /\ la = "$end" -> "p_program"
         [] top = "program" /\ la = "$end" -> "accept"
         [] OTHER -> "error"

\* the most operators of an expression
MaxOps == 2

\* the tokens of  a op1 b op2 c ...: the identifiers are a, b, c, ... in the
\* order they stand in the expression
ExprTokens(ops) ==
    [i \in 1..(2 * Len(ops) + 1) |->
        IF i % 2 = 1 THEN Token("ID", <<"a", "b", "c", "d", "e">>[(i + 1) \div 2])
        ELSE Token(BinTokenType(ops[i \div 2]), ops[i \div 2])]

\* x = a op1 b ...
AssignStream(ops) ==
    <<Token("ID", "x"), Token("EQUALS", "=")>> \o ExprTokens(ops)
       \o <<Token("NEWLINE", "\n")>>

\* return a op1 b ...
ReturnStream(ops) ==
    <<Token("RETURN", "return")>> \o ExprTokens(ops) \o <<Token("NEWLINE", "\n")>>

\* return
BareReturn == <<Token("RETURN", "return"), Token("NEWLINE", "\n")>>

\* the token streams handed to parse(): one statement each, ended by the
\* NEWLINE that ensure_newline_at_end guarantees
TokenStreams ==
    {AssignStream(ops) : ops \in SeqsUpTo(ParseOperators, MaxOps)}
       \cup {ReturnStream(ops) : ops \in SeqsUpTo(ParseOperators, MaxOps)}
       \cup {BareReturn}

\* parser.parse(data) is called on a token stream
InitParse ==
    /\ InitAnalyzer
    /\ program \in TokenStreams
    /\ input = program
    /\ symstack = <<>>
    /\ parsed = [done |-> FALSE, val |-> None, exc |-> NoExc]

\* the symbols a production of n symbols takes from the stack, after p[0]
PSlice(n) == <<Token("", None)>> \o SubSeq(symstack, Len(symstack) - n + 1, Len(symstack))

\* the table says shift: the token ahead goes onto the stack
Shift ==
    /\ ~parsed.done
    /\ LRAction(symstack, Lookahead) = "shift"
    /\ symstack' = Append(symstack, Head(input))
    /\ input' = Tail(input)
    /\ UNCHANGED <<program, parsed>>
    /\ UNCHANGED avars

\* the table says reduce by the production of function name, which has n
\* symbols and makes an lhs: its function runs on the symbols; what it puts in
\* p[0] replaces them on the stack, what it raises leaves parse()
Reduce(name, lhs, n, r) ==
    /\ ~parsed.done
    /\ LRAction(symstack, Lookahead) = name
    /\ IF r.exc = NoExc
       THEN /\ symstack' = Append(SubSeq(symstack, 1, Len(symstack) - n), Token(lhs, r.val))
            /\ parsed' = parsed
       ELSE /\ symstack' = symstack
            /\ parsed' = [done |-> TRUE, val |-> None, exc |-> r.exc]
    /\ UNCHANGED <<program, input>>

ReduceExprId ==
    /\ Reduce("p_expr_id", "expr", 1, p_expr_id(PSlice(1)))
    /\ UNCHANGED avars

ReduceExprBinop ==
    /\ Reduce("p_expr_binop", "expr", 3, p_expr_binop(PSlice(3)))
    /\ UNCHANGED avars

ReduceAssignOp ==
    /\ Reduce("p_assign_op", "assign_op", 1, p_assign_op(PSlice(1)))
    /\ UNCHANGED avars

ReduceAssign ==
    /\ Reduce("p_assign", "assign", 3, p_assign(PSlice(3)))
    /\ UNCHANGED avars

\* return_stmt : RETURN | RETURN expr
ReduceReturnStmt ==
    /\ \E n \in {IF symstack # <<>> /\ symstack[Len(symstack)].type = "RETURN" THEN 1 ELSE 2} :
          Reduce("p_return_stmt", "return_stmt", n, p_return_stmt(PSlice(n)))
    /\ UNCHANGED avars

ReduceSimpleStmt ==
    /\ Reduce("p_simple_stmt", "simple_stmt", 1, p_simple_stmt(PSlice(1)))
    /\ UNCHANGED avars

\* stmt : simple_stmt NEWLINE
ReduceStmt ==
    /\ Reduce("p_stmt", "stmt", 2, p_stmt(PSlice(2)))
    /\ UNCHANGED avars

\* stmts : stmt | stmts stmt
ReduceStmts ==
    /\ \E n \in {IF Len(symstack) > 1 /\ symstack[Len(symstack) - 1].type = "stmts"
                 THEN 2 ELSE 1} :
          Reduce("p_stmts", "stmts", n, p_stmts(PSlice(n)))
    /\ UNCHANGED avars

ReduceProgram ==
    /\ Reduce("p_program", "program", 1, p_program(PSlice(1)))
    /\ UNCHANGED avars

\* the start symbol is on the stack and the input is read: parse() returns
\* the value of program
Accept ==
    /\ ~parsed.done
    /\ LRAction(symstack, Lookahead) = "accept"
    /\ parsed' = [done |-> TRUE, val |-> symstack[Len(symstack)].value, exc |-> NoExc]
    /\ UNCHANGED <<program, input, symstack>>
    /\ UNCHANGED avars

NextParse ==
    \/ Shift
    \/ ReduceExprId
    \/ ReduceExprBinop
    \/ ReduceAssignOp
    \/ ReduceAssign
    \/ ReduceReturnStmt
    \/ ReduceSimpleStmt
    \/ ReduceStmt
    \/ ReduceStmts
    \/ ReduceProgram
    \/ Accept

SpecParse == InitParse /\ [][NextParse]_vars

\* ------------------------------------------------------------------ claims

\* the innermost scope of a non-empty stack
Top(sc) == sc[Len(sc)]

\* C1: a declare of a name that the current (innermost) scope already holds
\* raises SemanticError and leaves every binding as it was, so the name stays
\* bound to its first type; a declare of a name the current scope does not
\* hold raises nothing and binds it there, also when an outer scope holds the
\* name (shadowing).
C1_ScopeLaw ==
    [][(last'.op = "declare" /\ scopes # <<>>) =>
          LET name == last'.node.name
              type == last'.node.type
          IN IF name \in DOMAIN Top(scopes)
             THEN last'.exc = SemanticError /\ scopes' = scopes
             ELSE /\ last'.exc = NoExc
                  /\ Len(scopes') = Len(scopes)
                  /\ Top(scopes')[name] = type
                  /\ \A i \in 1..(Len(scopes) - 1) : scopes'[i] = scopes[i]
                  /\ \A n \in DOMAIN Top(scopes) : Top(scopes')[n] = Top(scopes)[n]]_vars

\* C1 witness: x is bound in the outer scope and, with another type, in the
\* inner one (shadowing went through), and a further declare of x with the
\* outer type has just been refused, leaving the inner binding
C1_Witness ==
    /\ last.op = "declare"
    /\ last.exc = SemanticError
    /\ Len(scopes) = 2
    /\ last.node.name \in DOMAIN scopes[1]
    /\ last.node.name \in DOMAIN scopes[2]
    /\ scopes[1][last.node.name] = last.node.type
    /\ scopes[2][last.node.name] # last.node.type

\* what lookup has to answer on a stack: the binding of the scope that holds
\* name and has no scope holding name above it
LookupAnswers(sc, name, r) ==
    /\ \A i \in 1..Len(sc) :
          (name \in DOMAIN sc[i] /\ \A j \in (i + 1)..Len(sc) : name \notin DOMAIN sc[j])
              => (r.exc = NoExc /\ r.val = sc[i][name])
    /\ (r.exc = SemanticError) <=> (\A i \in 1..Len(sc) : name \notin DOMAIN sc[i])
    /\ r.exc \in {NoExc, SemanticError}

\* C2: lookup returns the type bound in the innermost scope that holds the
\* name and raises SemanticError exactly when no scope holds it; and leaving
\* a scope removes exactly the innermost scope, so what it shadowed is what
\* lookup finds again.
C2_LookupInnermost ==
    /\ [](last.op = "lookup" => LookupAnswers(scopes, last.node.name, last))
    /\ [][(last'.op = "exit_scope" /\ scopes # <<>>) =>
             /\ scopes' = SubSeq(scopes, 1, Len(scopes) - 1)
             /\ \A n \in STNames :
                   LookupAnswers(SubSeq(scopes, 1, Len(scopes) - 1), n,
                                 STlookup(scopes', n))]_vars

\* C2 witness: a lookup of a name bound in two scopes with different types
\* has returned the inner type
C2_Witness ==
    /\ last.op = "lookup"
    /\ last.exc = NoExc
    /\ Len(scopes) = 2
    /\ last.node.name \in DOMAIN scopes[1]
    /\ last.node.name \in DOMAIN scopes[2]
    /\ scopes[1][last.node.name] # scopes[2][last.node.name]
    /\ last.val = scopes[2][last.node.name]

\* the compatibility rule as the specification words it: equal types, or an
\* int where a double is expected
RuleCompatible(expected, actual) ==
    \/ expected = actual
    \/ (expected = TDouble /\ actual = TInt)

\* the type of a literal expression
LitType(e) ==
    CASE e = Integer -> TInt
      [] e = Doublel -> TDouble
      [] e = String -> TStr
      [] e = Boolean -> TBool

\* C3: type_compatible answers true exactly for equal types and for
\* (double, int); a declare_assign of a literal to a name free in the current
\* scope succeeds exactly when the literal's type is compatible with the
\* declared type, and then binds the name to the declared type (double x = 1
\* succeeds, int x = 1.0 raises); an assign of a literal to a declared
\* variable raises SemanticError exactly when the literal's type is not
\* compatible with the variable's type (a string to an int raises).
C3_TypeCompatible ==
    [][/\ last'.op = "type_compatible" =>
             (last'.val <=> RuleCompatible(last'.node.expected, last'.node.actual))
       /\ (last'.op = "declare_assign" /\ last'.node.expr \in Lits
              /\ last'.node.name \notin DOMAIN Top(scopes)) =>
             IF RuleCompatible(last'.node.type, LitType(last'.node.expr))
             THEN /\ last'.exc = NoExc
                  /\ Top(scopes')[last'.node.name] = last'.node.type
             ELSE /\ last'.exc = SemanticError
                  /\ scopes' = scopes
       /\ (last'.op = "assign" /\ last'.node.expr \in Lits
              /\ last'.node.name \in DOMAIN Top(scopes)) =>
             /\ last'.exc \in {NoExc, SemanticError}
             /\ (last'.exc = SemanticError) <=>
                   ~RuleCompatible(Top(scopes)[last'.node.name], LitType(last'.node.expr))]_vars

\* C3 witness: double x = <integer literal> has been accepted and x is a double
C3_Witness ==
    /\ last.op = "declare_assign"
    /\ last.node.type = TDouble
    /\ last.node.expr = Integer
    /\ last.exc = NoExc
    /\ ~raised
    /\ scopes[1]["x"] = TDouble

\* C4: a call raises SemanticError if the name is not declared, is bound to
\* something that is no function descriptor, has another number of arguments
\* than the function has parameters, or has an argument whose type is not
\* compatible with the parameter at its position; otherwise it raises nothing
\* and its type is the declared return type. (The arguments are literals.)
C4_FuncCall ==
    last.op = "func_call" =>
        LET name == last.node.name
            args == last.node.args
            bound == \E i \in 1..Len(scopes) : name \in DOMAIN scopes[i]
            f == STlookup(scopes, name).val
            bad == \/ ~bound
                   \/ f.k # "function"
                   \/ Len(args) # Len(f.p)
                   \/ \E i \in 1..Len(args) : ~RuleCompatible(f.p[i], LitType(args[i]))
        IN IF bad THEN last.exc = SemanticError
           ELSE last.exc = NoExc /\ last.val = f.r

\* C4 witness: a call with two arguments, the second an int literal where a
\* double is declared, has been accepted
C4_Witness ==
    /\ last.op = "func_call"
    /\ last.exc = NoExc
    /\ last.node.args = <<Integer, Integer>>
    /\ scopes[1][last.node.name].p = <<TInt, TDouble>>
    /\ last.val = scopes[1][last.node.name].r

\* the declared parameter types of a func_declare node, in declaration order
DeclaredTypes(node) == [i \in 1..Len(node.params) |-> node.params[i].type]

\* a function body that calls the function being declared with its own
\* first parameter
CallsItself(node) ==
    /\ node.params # <<>>
    /\ node.body = <<Return1(FuncCall(node.name, <<Id("a"), Id("a")>>))>>
    /\ node.ret \in {TInt, TDouble}

\* C5: a func_declare of a name free in the current scope binds the name, in
\* that scope, to (function, return type, parameter types in order), and the
\* binding is there whether or not the body passes; it is made before the
\* body is analyzed, so a body that calls the function itself passes; when
\* the declaration completes, the stack is as on entry but for that binding,
\* so no parameter name is bound by it.
C5_FuncDeclare ==
    [][(last'.op = "func_declare" /\ last'.node.name \notin DOMAIN Top(scopes)) =>
          LET node == last'.node
              n == Len(scopes)
          IN /\ Len(scopes') >= n
             /\ node.name \in DOMAIN scopes'[n]
             /\ scopes'[n][node.name] =
                   [k |-> "function", r |-> node.ret, p |-> DeclaredTypes(node)]
             /\ CallsItself(node) => last'.exc = NoExc
             /\ last'.exc = NoExc =>
                   /\ Len(scopes') = n
                   /\ DOMAIN scopes'[n] = DOMAIN scopes[n] \cup {node.name}
                   /\ \A m \in DOMAIN scopes[n] : scopes'[n][m] = scopes[n][m]
                   /\ \A m \in {"a", "b"} :
                         STlookup(scopes', m).exc = STlookup(scopes, m).exc]_vars

\* C5 witness: a function with two parameters that calls itself has been
\* declared, and its parameter a is not bound afterwards
C5_Witness ==
    /\ last.op = "func_declare"
    /\ last.exc = NoExc
    /\ CallsItself(last.node)
    /\ Len(last.node.params) = 2
    /\ scopes[1][last.node.name].p = <<TInt, TDouble>>
    /\ STlookup(scopes, "a").exc = SemanticError

\* the last element of a non-empty sequence
Innermost(q) == q[Len(q)]

\* C6: whenever a return statement is analyzed, current_function is the
\* declared return type of the innermost func_declare whose body holds the
\* statement, and None exactly when there is none; so the return raises
\* exactly when it is outside every function or its type is not compatible
\* with that return type.
C6_ReturnSlot ==
    \A i \in 1..Len(last.log) :
        LET ev == last.log[i]
        IN ev.ev = "return" =>
              /\ ev.cf = IF ev.encl = <<>> THEN None ELSE Innermost(ev.encl)
              /\ (i = Len(last.log) /\ last.msg \in {"Return statement outside function",
                                                     "Return type mismatch"})
                    <=> (\/ ev.encl = <<>>
                         \/ ~RuleCompatible(Innermost(ev.encl), ev.type))

\* the type of an operand of BinOperands on the stack sc
OperandType(e, sc) == IF e.kind = "id" THEN STlookup(sc, e.name).val ELSE LitType(e)

\* what the widening rule gives for two numeric operand types
Widened(l, r) == IF l = TDouble \/ r = TDouble THEN TDouble ELSE TInt

\* C7: a binop with + - * / on operands of types int and double raises
\* nothing and has type double if either operand is a double, int otherwise,
\* whichever side the double is on.
C7_Widening ==
    (last.op = "binop" /\ last.node.op \in {"+", "-", "*", "/"}
        /\ OperandType(last.node.left, scopes) \in {TInt, TDouble}
        /\ OperandType(last.node.right, scopes) \in {TInt, TDouble}) =>
       /\ last.exc = NoExc
       /\ last.val = Widened(OperandType(last.node.left, scopes),
                             OperandType(last.node.right, scopes))

\* C8: a binop with ** follows the same widening rule: int ** int is an int,
\* and with a double operand the result is a double.
C8_Power ==
    (last.op = "binop" /\ last.node.op = "**"
        /\ OperandType(last.node.left, scopes) \in {TInt, TDouble}
        /\ OperandType(last.node.right, scopes) \in {TInt, TDouble}) =>
       /\ last.exc = NoExc
       /\ last.val = Widened(OperandType(last.node.left, scopes),
                             OperandType(last.node.right, scopes))

\* C9: every node kind the parser emits has a handler, so the analysis of an
\* AST built from the parser's node kinds never raises 'Unknown node type'.
C9_NoUnknownNode ==
    (last.op \notin {"init", "type_compatible"} /\ last.node.kind \in ParserKinds) =>
        last.msg # "Unknown node type"

\* the stack on which the body of a loop or until node is analyzed, when the
\* node's header passes on the stack sc: the loop variable is declared, the
\* iterable is an array literal, the until condition a boolean literal
BodyStack(node, sc) ==
    IF node.kind = "until" THEN STenter_scope(sc).scopes
    ELSE STenter_scope(STdeclare(sc, node.var_decl.name, node.var_decl.type).scopes).scopes

HeaderPasses(node, sc) ==
    IF node.kind = "until" THEN node.cond = Boolean
    ELSE /\ node.iterable = ArrayLit(<<Integer>>)
         /\ node.var_decl.name \notin DOMAIN Top(sc)

\* C10: the statements of a loop or until body are analyzed in order in a
\* newly entered scope: the node raises what its statements raise there, and
\* when it completes nothing the body declared is left on the stack.
C10_BodyAnalyzed ==
    [][(last'.op \in {"loop", "until"} /\ HeaderPasses(last'.node, scopes)) =>
          LET b == analyze_each(last'.node.body.items, 1,
                                [scopes |-> BodyStack(last'.node, scopes),
                                 cf |-> current_function, encl |-> <<>>, log |-> <<>>])
          IN /\ last'.exc = b.exc
             /\ last'.exc = NoExc => Len(scopes') = Len(scopes)]_vars

\* C11: scopes are pushed and popped in strict LIFO order: whenever the
\* analysis of a func_declare, loop or until node ends, by returning or by
\* raising from inside its parameters or body, the scope stack is as deep as
\* when the analysis of that node began.
C11_ScopesLIFO ==
    [][last'.op \in {"func_declare", "loop", "until"} =>
          Len(scopes') = Len(scopes)]_vars

\* C12: the analysis of an array literal raises SemanticError when the list
\* of items is empty or holds two items of different types, and otherwise
\* (the items all of one type T) raises nothing and has the type array of T.
C12_ArrayLit ==
    last.op = "array_lit" =>
       LET items == last.node.items
       IN IF items = <<>> \/ \E i, j \in 1..Len(items) : LitType(items[i]) # LitType(items[j])
          THEN last.exc = SemanticError
          ELSE last.exc = NoExc /\ last.val = ArrayString(LitType(items[1]))

\* C13: the analysis of a unary node (unary, op, name), op one of ++ and --
\* and name the identifier text, raises nothing and has type int when name is
\* declared with type int, and raises SemanticError when name is declared
\* with another type or is not declared.
C13_Unary ==
    last.op = "unary" =>
       LET l == STlookup(scopes, last.node.operand.name)
       IN IF l.exc = NoExc /\ l.val = TInt
          THEN last.exc = NoExc /\ last.val = TInt
          ELSE last.exc = SemanticError

\* the precedence level of an operator of p_expr_binop: additive,
\* multiplicative, power
Level(op) ==
    CASE op \in {"+", "-"} -> 1
      [] op \in {"*", "/", "%"} -> 2
      [] op = "**" -> 3

\* C14: binary expressions are built by the precedence table: of two
\* operators of different levels the one of the higher level binds tighter,
\* so x = a + b * c is parsed as binop(+, a, binop(*, b, c)) and
\* x = a * b + c as binop(+, binop(*, a, b), c).
C14_Precedence ==
    (parsed.done /\ program[1].type = "ID" /\ Len(program) = 8
        /\ Level(program[4].value) # Level(program[6].value)) =>
       LET op1 == program[4].value
           op2 == program[6].value
       IN /\ parsed.exc = NoExc
          /\ parsed.val =
                <<Assign("x", "=",
                         IF Level(op1) > Level(op2)
                         THEN BinOp(op2, BinOp(op1, Id("a"), Id("b")), Id("c"))
                         ELSE BinOp(op1, Id("a"), BinOp(op2, Id("b"), Id("c"))))>>

\* the declared type of the indexed expression of Indexes on the stack sc,
\* by the parser's array types: of a variable its type, of a[0] the element
\* type of a's type
IndexedType(e, sc) ==
    IF e.kind = "id" THEN STlookup(sc, e.name).val
    ELSE LET u == STlookup(sc, e.array.name).val
         IN IF u.k = "array" THEN u.e ELSE None

\* C15: the stages agree on array types: an index node on a variable declared
\* with the parser's (array, T) and with an integer index raises nothing and
\* has type T, also one level down for T[][]; on a variable of a primitive
\* type or with an index that is not an integer it raises SemanticError; and
\* an index node never ends otherwise than with success or SemanticError.
C15_Index ==
    last.op = "index" =>
       LET t == IndexedType(last.node.array, scopes)
       IN /\ last.exc \in {NoExc, SemanticError}
          /\ (t.k = "array" /\ last.node.index = Integer) =>
                (last.exc = NoExc /\ last.val = t.e)
          /\ (t \in DeclTypes \/ (t.k = "array" /\ last.node.index # Integer)) =>
                last.exc = SemanticError

\* C16: the loop variable is bound in the scope the loop itself opens, not
\* in the enclosing one: the analysis of a loop over an array raises nothing,
\* whatever the enclosing scopes hold (so a second loop with the same
\* variable name passes as the first did), and leaves the scope stack as it
\* was, the loop variable not being resolvable afterwards unless it was
\* before.
C16_LoopVariable ==
    [][(last'.op = "loop" /\ last'.node.iterable = ArrayLit(<<Integer>>)) =>
          /\ last'.exc = NoExc
          /\ scopes' = scopes]_vars

\* C17: neither reduction of a return statement fails: return alone is
\* reduced to the node (return,), the node the analyzer types void, and
\* return with an expression to (return, expr).
C17_ReturnReduced ==
    (parsed.done /\ program[1].type = "RETURN" /\ Len(program) <= 3) =>
       /\ parsed.exc = NoExc
       /\ parsed.val = IF program = BareReturn THEN <<Return0>> ELSE <<Return1(Id("a"))>>

====
